---- MODULE Spec2Model ----
(***************************************************************************)
(* Rigol DP832A control library (rigol.py): the device channel             *)
(* (RigolDP832A.command / RigolDP832A.query), the typed client operations  *)
(* built on it, and the identity check made at construction.               *)
(*                                                                         *)
(* Text is a sequence of one-character strings, so that formatting,        *)
(* stripping, substring tests and float parsing are computed and not       *)
(* assumed.  Floating-point quantities are held in thousandths (5.0 is     *)
(* 5000): the resolution of the instrument's replies.                      *)
(***************************************************************************)
EXTENDS Integers, Sequences, FiniteSets, TLC

(***************************************************************************)
(* Bounds of the model.                                                    *)
(***************************************************************************)
\* voltages used as arguments: 2.5, 5.0, ... (NumVoltages of them)
NumVoltages == 2
\* currents used as arguments: 0.25, 0.5, ... (NumCurrents of them)
NumCurrents == 2

Voltages == { k * 2500 : k \in 1..NumVoltages }
Currents == { k * 250 : k \in 1..NumCurrents }

(***************************************************************************)
(* Program constants.                                                      *)
(***************************************************************************)
DEFAULT_DEVICE == "/dev/usbtmc2"
\* time.sleep(0.05) in command, in milliseconds
COMMAND_SLEEP_MS == 50
\* time.sleep(0.1) in query, in milliseconds
QUERY_SLEEP_MS == 100
\* os.read(fd, 4096)
READ_SIZE == 4096
\* for ch in [1, 2, 3]
ALL_CHANNELS == <<1, 2, 3>>

Channels == { ALL_CHANNELS[k] : k \in 1..Len(ALL_CHANNELS) }

(***************************************************************************)
(* Text.                                                                   *)
(***************************************************************************)
NL == "\n"
\* a byte that is not valid UTF-8
BADBYTE == "<ff>"
\* the characters str.strip() removes
Whitespace == {" ", "\t", "\n", "\r"}

DigitChars == <<"0", "1", "2", "3", "4", "5", "6", "7", "8", "9">>
IsDigit(c) == \E d \in 1..10 : DigitChars[d] = c
DigitVal(c) == (CHOOSE d \in 1..10 : DigitChars[d] = c) - 1

\* sub in s  (Python's substring test)
Contains(s, sub) ==
    \E k \in 0..(Len(s) - Len(sub)) : SubSeq(s, k + 1, k + Len(sub)) = sub

StartsWith(s, p) == Len(s) >= Len(p) /\ SubSeq(s, 1, Len(p)) = p
DropN(s, n) == SubSeq(s, n + 1, Len(s))

\* str.lstrip / str.rstrip / str.strip
RECURSIVE LStrip(_)
LStrip(s) == IF s # <<>> /\ Head(s) \in Whitespace THEN LStrip(Tail(s)) ELSE s
RECURSIVE RStrip(_)
RStrip(s) ==
    IF s # <<>> /\ s[Len(s)] \in Whitespace
    THEN RStrip(SubSeq(s, 1, Len(s) - 1)) ELSE s
Strip_rstrip_only(s) == RStrip(s)
Strip(s) == RStrip(LStrip(s))

\* bytes.decode('utf-8'): fails on an invalid byte, otherwise the same characters
Decodable(b) == \A k \in 1..Len(b) : b[k] # BADBYTE

\* f'{channel}' for an int
RECURSIVE FormatInt(_)
FormatInt(n) ==
    IF n < 10 THEN <<DigitChars[n + 1]>>
    ELSE FormatInt(n \div 10) \o <<DigitChars[(n % 10) + 1]>>

\* the fraction digits of repr(float): trailing zeros dropped, at least one digit
FracDigits(f) ==
    IF f = 0 THEN <<"0">>
    ELSE IF f % 100 = 0 THEN <<DigitChars[(f \div 100) + 1]>>
    ELSE IF f % 10 = 0
         THEN <<DigitChars[(f \div 100) + 1], DigitChars[((f \div 10) % 10) + 1]>>
    ELSE <<DigitChars[(f \div 100) + 1], DigitChars[((f \div 10) % 10) + 1],
           DigitChars[(f % 10) + 1]>>

\* f'{voltage}' for a float (repr): 5000 -> "5.0", 250 -> "0.25"
FormatFloat_int_part_only(m) == FormatInt(m \div 1000)
FormatFloat(m) == FormatInt(m \div 1000) \o <<".">> \o FracDigits(m % 1000)

RECURSIVE DigitsVal(_)
DigitsVal(s) ==
    IF s = <<>> THEN 0
    ELSE DigitsVal(SubSeq(s, 1, Len(s) - 1)) * 10 + DigitVal(s[Len(s)])

AllDigits(s) == \A k \in 1..Len(s) : IsDigit(s[k])

\* the fraction "25" as thousandths (250); digits past the third are below the
\* resolution of the model
FracVal(s) ==
    LET t == SubSeq(s \o <<"0", "0", "0">>, 1, 3) IN DigitsVal(t)

(***************************************************************************)
(* float(text) for the unsigned decimal texts  d+ | d+ "." d* | d* "." d+  *)
(* CanFloat(t) says whether float(t) returns; FloatOf(t) is its value.     *)
(* Any other text (for example "ERR" or "") makes float raise ValueError.  *)
(***************************************************************************)
DotAt(t) == IF \E k \in 1..Len(t) : t[k] = "."
            THEN CHOOSE k \in 1..Len(t) : t[k] = "." /\ \A j \in 1..(k - 1) : t[j] # "."
            ELSE 0
CanFloat(t) ==
    LET d == DotAt(t) IN
    IF d = 0 THEN t # <<>> /\ AllDigits(t)
    ELSE /\ AllDigits(SubSeq(t, 1, d - 1))
         /\ AllDigits(DropN(t, d))
         /\ Len(t) > 1
FloatOf(t) ==
    LET d == DotAt(t) IN
    IF d = 0 THEN DigitsVal(t) * 1000
    ELSE DigitsVal(SubSeq(t, 1, d - 1)) * 1000 + FracVal(DropN(t, d))

(***************************************************************************)
(* The literal texts of rigol.py.                                          *)
(***************************************************************************)
T_IDN == <<"*", "I", "D", "N", "?">>
T_OUTP_CH == <<":", "O", "U", "T", "P", " ", "C", "H">>
T_ON == <<",", "O", "N">>
T_OFF == <<",", "O", "F", "F">>
T_OUTPQ_CH == <<":", "O", "U", "T", "P", "?", " ", "C", "H">>
T_SOUR == <<":", "S", "O", "U", "R">>
T_VOLT == <<":", "V", "O", "L", "T", " ">>
T_VOLTQ == <<":", "V", "O", "L", "T", "?">>
T_CURR == <<":", "C", "U", "R", "R", " ">>
T_CURRQ == <<":", "C", "U", "R", "R", "?">>
T_MEAS_VOLT_CH == <<":", "M", "E", "A", "S", ":", "V", "O", "L", "T", "?", " ", "C", "H">>
T_MEAS_CURR_CH == <<":", "M", "E", "A", "S", ":", "C", "U", "R", "R", "?", " ", "C", "H">>
T_MEAS_POWE_CH == <<":", "M", "E", "A", "S", ":", "P", "O", "W", "E", "?", " ", "C", "H">>
T_OVP_VAL_CH == <<":", "O", "U", "T", "P", ":", "O", "V", "P", ":", "V", "A", "L", " ", "C", "H">>
T_OVP_CH == <<":", "O", "U", "T", "P", ":", "O", "V", "P", " ", "C", "H">>
T_OCP_VAL_CH == <<":", "O", "U", "T", "P", ":", "O", "C", "P", ":", "V", "A", "L", " ", "C", "H">>
T_OCP_CH == <<":", "O", "U", "T", "P", ":", "O", "C", "P", " ", "C", "H">>
T_COMMA == <<",">>
T_RIGOL == <<"R", "I", "G", "O", "L">>
T_DP8 == <<"D", "P", "8">>
T_REPLY_ON == <<"O", "N">>

(***************************************************************************)
(* The typed client operations.  Each is the sequence of channel calls its *)
(* body makes, in program order: a call of self.command(cmd) or of         *)
(* self.query(cmd) together with the conversion applied to the reply       *)
(* ("str": none, "bool": == 'ON', "float": float(...)).                    *)
(***************************************************************************)
Send(cmd) == [kind |-> "command", cmd |-> cmd, conv |-> "none"]
Ask(cmd, conv) == [kind |-> "query", cmd |-> cmd, conv |-> conv]

\* idn = self.query('*IDN?')
verify_query == <<Ask(T_IDN, "str")>>

output_on(channel) == <<Send(T_OUTP_CH \o FormatInt(channel) \o T_ON)>>
output_off(channel) == <<Send(T_OUTP_CH \o FormatInt(channel) \o T_OFF)>>
get_output_revalidate(channel) ==
    verify_query \o <<Ask(T_OUTPQ_CH \o FormatInt(channel), "bool")>>
get_output(channel) == <<Ask(T_OUTPQ_CH \o FormatInt(channel), "bool")>>

set_voltage(channel, voltage) ==
    <<Send(T_SOUR \o FormatInt(channel) \o T_VOLT \o FormatFloat(voltage))>>
get_voltage_setpoint(channel) ==
    <<Ask(T_SOUR \o FormatInt(channel) \o T_VOLTQ, "float")>>
measure_voltage(channel) == <<Ask(T_MEAS_VOLT_CH \o FormatInt(channel), "float")>>

set_current(channel, current) ==
    <<Send(T_SOUR \o FormatInt(channel) \o T_CURR \o FormatFloat(current))>>
get_current_setpoint(channel) ==
    <<Ask(T_SOUR \o FormatInt(channel) \o T_CURRQ, "float")>>
measure_current(channel) == <<Ask(T_MEAS_CURR_CH \o FormatInt(channel), "float")>>

measure_power(channel) == <<Ask(T_MEAS_POWE_CH \o FormatInt(channel), "float")>>

set_ovp_enable_first(channel, voltage) ==
    <<Send(T_OVP_CH \o FormatInt(channel) \o T_ON),
      Send(T_OVP_VAL_CH \o FormatInt(channel) \o T_COMMA \o FormatFloat(voltage))>>
set_ovp(channel, voltage) ==
    <<Send(T_OVP_VAL_CH \o FormatInt(channel) \o T_COMMA \o FormatFloat(voltage)),
      Send(T_OVP_CH \o FormatInt(channel) \o T_ON)>>
set_ocp(channel, current) ==
    <<Send(T_OCP_VAL_CH \o FormatInt(channel) \o T_COMMA \o FormatFloat(current)),
      Send(T_OCP_CH \o FormatInt(channel) \o T_ON)>>

status_setpoints_last(channel) ==
    get_output(channel) \o measure_voltage(channel) \o measure_current(channel)
        \o measure_power(channel) \o get_voltage_setpoint(channel)
        \o get_current_setpoint(channel)
\* the keyword arguments of ChannelStatus(...) are evaluated in source order
status(channel) ==
    get_output(channel) \o get_voltage_setpoint(channel)
        \o get_current_setpoint(channel) \o measure_voltage(channel)
        \o measure_current(channel) \o measure_power(channel)

RECURSIVE all_off_from_descending(_)
all_off_from_descending(k) ==
    IF k > Len(ALL_CHANNELS) THEN <<>>
    ELSE all_off_from_descending(k + 1) \o output_off(ALL_CHANNELS[k])
\* for ch in [1, 2, 3]: self.output_off(ch)
RECURSIVE all_off_from(_)
all_off_from(k) ==
    IF k > Len(ALL_CHANNELS) THEN <<>>
    ELSE output_off(ALL_CHANNELS[k]) \o all_off_from(k + 1)
all_off == all_off_from(1)

configure_always_on(channel, voltage, current, output) ==
    set_voltage(channel, voltage) \o set_current(channel, current)
        \o output_on(channel)
configure(channel, voltage, current, output) ==
    set_voltage(channel, voltage) \o set_current(channel, current)
        \o (IF output THEN output_on(channel) ELSE <<>>)

(***************************************************************************)
(* A call of the client by its user: the method name and its arguments     *)
(* (unused arguments are 0 / FALSE).                                       *)
(***************************************************************************)
Call(name, channel, voltage, current, output) ==
    [name |-> name, channel |-> channel, voltage |-> voltage,
     current |-> current, output |-> output, cmd |-> <<>>]
\* psu.query(scpi) / psu.command(scpi), called directly
RawCall(name, scpi) == [Call(name, 0, 0, 0, FALSE) EXCEPT !.cmd = scpi]

NoCall == Call("none", 0, 0, 0, FALSE)
InitCall == Call("__init__", 0, 0, 0, FALSE)

\* the channel calls made by the body of the method called
Plan(c) ==
    CASE c.name = "__init__" -> verify_query
      [] c.name = "output_on" -> output_on(c.channel)
      [] c.name = "output_off" -> output_off(c.channel)
      [] c.name = "get_output" -> get_output(c.channel)
      [] c.name = "set_voltage" -> set_voltage(c.channel, c.voltage)
      [] c.name = "get_voltage_setpoint" -> get_voltage_setpoint(c.channel)
      [] c.name = "measure_voltage" -> measure_voltage(c.channel)
      [] c.name = "set_current" -> set_current(c.channel, c.current)
      [] c.name = "get_current_setpoint" -> get_current_setpoint(c.channel)
      [] c.name = "measure_current" -> measure_current(c.channel)
      [] c.name = "measure_power" -> measure_power(c.channel)
      [] c.name = "set_ovp" -> set_ovp(c.channel, c.voltage)
      [] c.name = "set_ocp" -> set_ocp(c.channel, c.current)
      [] c.name = "status" -> status(c.channel)
      [] c.name = "all_off" -> all_off
      [] c.name = "configure" -> configure(c.channel, c.voltage, c.current, c.output)
      [] c.name = "query" -> <<Ask(c.cmd, "str")>>
      [] c.name = "command" -> <<Send(c.cmd)>>
      [] OTHER -> <<>>

ChannelStatus_swapped(channel, v) ==
    [channel |-> channel, output |-> v[1], voltage_set |-> v[2],
     current_set |-> v[3], voltage |-> v[4], current |-> v[6], power |-> v[5]]
\* ChannelStatus(channel=..., output=..., voltage_set=..., ...)
ChannelStatus(channel, v) ==
    [channel |-> channel, output |-> v[1], voltage_set |-> v[2],
     current_set |-> v[3], voltage |-> v[4], current |-> v[5], power |-> v[6]]

\* what the method returns, from the converted replies of its queries
Result(c, v) ==
    IF c.name = "status" THEN ChannelStatus(c.channel, v)
    ELSE IF c.name \in {"get_output", "get_voltage_setpoint", "measure_voltage",
                        "get_current_setpoint", "measure_current", "measure_power",
                        "query"}
         THEN v[1]
    ELSE "None"

\* the calls a user of the client makes
SetterCalls ==
    { Call(n, ch, 0, 0, FALSE) : n \in {"output_on", "output_off"}, ch \in Channels }
    \cup { Call(n, ch, v, 0, FALSE) : n \in {"set_voltage", "set_ovp"},
                                      ch \in Channels, v \in Voltages }
    \cup { Call(n, ch, 0, i, FALSE) : n \in {"set_current", "set_ocp"},
                                      ch \in Channels, i \in Currents }
    \cup { Call("configure", ch, v, i, o) :
               ch \in Channels, v \in Voltages, i \in Currents, o \in BOOLEAN }
    \cup { Call("all_off", 0, 0, 0, FALSE) }
GetterCalls ==
    { Call(n, ch, 0, 0, FALSE) :
        n \in {"get_output", "get_voltage_setpoint", "measure_voltage",
               "get_current_setpoint", "measure_current", "measure_power", "status"},
        ch \in Channels }
Calls == SetterCalls \cup GetterCalls

(***************************************************************************)
(* The instrument behind the device file.  It is not part of the program:  *)
(* env = "any" is a device that may answer a query with any of AnyReplies, *)
(* env = "storing" is an instrument that stores what it is sent and        *)
(* answers from what it stored, three decimals and a newline.              *)
(***************************************************************************)
R_ON == <<"O", "N", NL>>
R_OFF == <<"O", "F", "F", NL>>
R_NUM == <<"5", ".", "0", "0", "0", NL>>
R_NUM_PADDED == <<" ", "0", ".", "2", "5", "\r", NL>>
R_ERR == <<"E", "R", "R", NL>>
R_BAD == <<"5", BADBYTE>>
R_EMPTY == <<>>
R_LOWER_ON == <<"o", "n", NL>>
R_IDN == <<"R", "I", "G", "O", "L", ",", "D", "P", "8", "3", "2", "A", NL>>
R_IDN_MODEL_ONLY == <<"D", "P", "8", "1", "1", NL>>
R_IDN_VENDOR_ONLY == <<" ", "R", "I", "G", "O", "L", NL>>
R_IDN_OTHER == <<"A", "C", "M", "E", ",", "P", "S", "1", NL>>

AnyReplies ==
    {R_ON, R_OFF, R_NUM, R_NUM_PADDED, R_ERR, R_BAD, R_EMPTY, R_LOWER_ON,
     R_IDN, R_IDN_MODEL_ONLY, R_IDN_VENDOR_ONLY, R_IDN_OTHER}

\* a channel of the instrument: setpoints, output, protection thresholds
InstrChannel(vset, iset, out) ==
    [vset |-> vset, iset |-> iset, out |-> out,
     ovp |-> 0, ovp_on |-> FALSE, ocp |-> 0, ocp_on |-> FALSE]
InstrDefault == [ch \in Channels |-> InstrChannel(0, 0, FALSE)]

\* three decimals, as the instrument prints a number
InstrFormat(m) ==
    FormatInt(m \div 1000) \o <<".">>
        \o <<DigitChars[((m % 1000) \div 100) + 1],
             DigitChars[((m % 100) \div 10) + 1], DigitChars[(m % 10) + 1]>>

\* the channel number written at position k of a command, 0 if there is none
ChannelAt(cmd, k) ==
    IF Len(cmd) >= k /\ IsDigit(cmd[k]) /\ DigitVal(cmd[k]) \in Channels
    THEN DigitVal(cmd[k]) ELSE 0

\* the instrument's state after it received the line cmd
InstrApply(ins, cmd) ==
    LET oc == ChannelAt(cmd, Len(T_OUTP_CH) + 1)
        sc == ChannelAt(cmd, Len(T_SOUR) + 1)
        orest == DropN(cmd, Len(T_OUTP_CH) + 1)
        srest == DropN(cmd, Len(T_SOUR) + 1)
        pvc == ChannelAt(cmd, Len(T_OVP_VAL_CH) + 1)
        pvrest == DropN(cmd, Len(T_OVP_VAL_CH) + 1)
        pec == ChannelAt(cmd, Len(T_OVP_CH) + 1)
        perest == DropN(cmd, Len(T_OVP_CH) + 1)
    IN  IF StartsWith(cmd, T_OUTP_CH) /\ oc # 0 /\ orest = T_ON
        THEN [ins EXCEPT ![oc].out = TRUE]
        ELSE IF StartsWith(cmd, T_OVP_VAL_CH) /\ pvc # 0 /\ StartsWith(pvrest, T_COMMA)
                /\ CanFloat(DropN(pvrest, 1))
        THEN [ins EXCEPT ![pvc].ovp = FloatOf(DropN(pvrest, 1))]
        ELSE IF StartsWith(cmd, T_OCP_VAL_CH) /\ pvc # 0 /\ StartsWith(pvrest, T_COMMA)
                /\ CanFloat(DropN(pvrest, 1))
        THEN [ins EXCEPT ![pvc].ocp = FloatOf(DropN(pvrest, 1))]
        ELSE IF StartsWith(cmd, T_OVP_CH) /\ pec # 0 /\ perest = T_ON
        THEN [ins EXCEPT ![pec].ovp_on = TRUE]
        ELSE IF StartsWith(cmd, T_OCP_CH) /\ pec # 0 /\ perest = T_ON
        THEN [ins EXCEPT ![pec].ocp_on = TRUE]
        ELSE IF StartsWith(cmd, T_OUTP_CH) /\ oc # 0 /\ orest = T_OFF
        THEN [ins EXCEPT ![oc].out = FALSE]
        ELSE IF StartsWith(cmd, T_SOUR) /\ sc # 0 /\ StartsWith(srest, T_VOLT)
                /\ CanFloat(DropN(srest, Len(T_VOLT)))
        THEN [ins EXCEPT ![sc].vset = FloatOf(DropN(srest, Len(T_VOLT)))]
        ELSE IF StartsWith(cmd, T_SOUR) /\ sc # 0 /\ StartsWith(srest, T_CURR)
                /\ CanFloat(DropN(srest, Len(T_CURR)))
        THEN [ins EXCEPT ![sc].iset = FloatOf(DropN(srest, Len(T_CURR)))]
        ELSE ins

\* what the instrument measures on a channel: nothing while the output is off
InstrVolt(c) == IF c.out THEN c.vset ELSE 0
InstrCurr(c) == IF c.out THEN c.iset ELSE 0
InstrPowe(c) == (InstrVolt(c) * InstrCurr(c)) \div 1000

\* the instrument's reply to the line cmd (empty: no reply)
InstrReply(ins, cmd) ==
    LET oc == ChannelAt(cmd, Len(T_OUTPQ_CH) + 1)
        sc == ChannelAt(cmd, Len(T_SOUR) + 1)
        srest == DropN(cmd, Len(T_SOUR) + 1)
        mc == ChannelAt(cmd, Len(T_MEAS_VOLT_CH) + 1)
    IN  IF cmd = T_IDN THEN R_IDN
        ELSE IF cmd = T_OUTPQ_CH \o FormatInt(oc) /\ oc # 0
        THEN IF ins[oc].out THEN R_ON ELSE R_OFF
        ELSE IF StartsWith(cmd, T_SOUR) /\ sc # 0 /\ srest = T_VOLTQ
        THEN InstrFormat(ins[sc].vset) \o <<NL>>
        ELSE IF StartsWith(cmd, T_SOUR) /\ sc # 0 /\ srest = T_CURRQ
        THEN InstrFormat(ins[sc].iset) \o <<NL>>
        ELSE IF cmd = T_MEAS_VOLT_CH \o FormatInt(mc) /\ mc # 0
        THEN InstrFormat(InstrVolt(ins[mc])) \o <<NL>>
        ELSE IF cmd = T_MEAS_CURR_CH \o FormatInt(mc) /\ mc # 0
        THEN InstrFormat(InstrCurr(ins[mc])) \o <<NL>>
        ELSE IF cmd = T_MEAS_POWE_CH \o FormatInt(mc) /\ mc # 0
        THEN InstrFormat(InstrPowe(ins[mc])) \o <<NL>>
        ELSE <<>>

\* env = "foreign" is a storing instrument of another make
EnvReply(e, ins, cmd) ==
    IF e = "foreign" /\ cmd = T_IDN THEN R_IDN_OTHER ELSE InstrReply(ins, cmd)

\* the line the instrument takes from the bytes written: up to the newline
\* terminator; bytes without a terminator are not a command
LineOf(data) ==
    IF data # <<>> /\ data[Len(data)] = NL THEN SubSeq(data, 1, Len(data) - 1)
    ELSE <<>>

(***************************************************************************)
(* State.                                                                  *)
(***************************************************************************)
VARIABLES
    pc,        \* the client: "new", "running" (inside a method), "idle", "dead"
    device,    \* self.device
    idn,       \* self.idn (NoIdn until _verify_connection stores it)
    call,      \* the method running, or the one that ran last
    ip,        \* which channel call of Plan(call) is running or next
    vals,      \* the converted results of the channel calls made so far
    cpc,       \* position inside command / query: "call", "write", "sleep",
               \* "read", "decode", "close", "ret"
    fds,       \* number of open handles of the device
    exc,       \* the exception in flight, NoExc if none
    buf,       \* the bytes read by os.read
    resp,      \* response: the decoded, stripped text
    log,       \* what the running method (or the last one) did on the device
    outcome,   \* what the last method returned or raised
    env,       \* "any" or "storing"
    instr,     \* the instrument's state, per channel
    instr0,    \* the instrument's state when the session (in main: the line) began
    wire,      \* the reply the instrument holds ready
    script,    \* the calls of a scripted session, <<>> for a free one
    sp,        \* the next call of script
    rpc,       \* repl.main: "none" (the client is used without it), "connect",
               \* "prompt", "handle", "exec", "done", "exited", "crashed"
    line,      \* the command line read at the prompt, stripped
    todo,      \* the client calls the handler of line has still to make
    out,       \* what main printed since the last prompt
    results    \* what the client calls of the handler returned so far

vars == <<pc, device, idn, call, ip, vals, cpc, fds, exc, buf, resp, log,
          outcome, env, instr, instr0, wire, script, sp, rpc, line, todo, out,
          results>>
\* the variables of repl.main
replvars == <<rpc, line, todo, out, results>>

NoIdn == <<"<unset>">>
NoDevice == "<unset>"

Exc(type, text) == [type |-> type, text |-> text]
NoExc == Exc("none", <<>>)
\* the failures of the os calls, told apart by the call that failed
OpenError == Exc("OSError", <<"open">>)
WriteError == Exc("OSError", <<"write">>)
ReadError == Exc("OSError", <<"read">>)
DecodeError == Exc("UnicodeDecodeError", <<>>)

NoOutcome == [kind |-> "none", value |-> "None", exc |-> NoExc]
Returned(v) == [kind |-> "ok", value |-> v, exc |-> NoExc]
Raised(e) == [kind |-> "raised", value |-> "None", exc |-> e]

\* an entry of log: the os call made, whether it succeeded, the channel call it
\* belongs to, the bytes written, the milliseconds slept
Ev(op, ok, st, data, ms) ==
    [op |-> op, ok |-> ok, kind |-> st.kind, cmd |-> st.cmd, data |-> data, ms |-> ms]

CurStep == Plan(call)[ip]

InitCommon ==
    /\ pc = "new"
    /\ device = NoDevice
    /\ idn = NoIdn
    /\ call = NoCall
    /\ ip = 1
    /\ vals = <<>>
    /\ cpc = "call"
    /\ fds = 0
    /\ exc = NoExc
    /\ buf = <<>>
    /\ resp = <<>>
    /\ log = <<>>
    /\ outcome = NoOutcome
    /\ wire = <<>>
    /\ sp = 1
    /\ line = <<>>
    /\ todo = <<>>
    /\ out = <<>>
    /\ results = <<>>

Init ==
    /\ InitCommon
    /\ env = "any"
    /\ instr = InstrDefault
    /\ instr0 = instr
    /\ script = <<>>
    /\ rpc = "none"

(***************************************************************************)
(* RigolDP832A.__init__: self.device = device; self._verify_connection()   *)
(***************************************************************************)
Enter(c) ==
    /\ call' = c
    /\ ip' = 1
    /\ vals' = <<>>
    /\ cpc' = "call"
    /\ log' = <<>>
    /\ outcome' = NoOutcome
    /\ pc' = "running"

Construct ==
    /\ pc = "new"
    /\ device' = DEFAULT_DEVICE
    /\ Enter(InitCall)
    /\ UNCHANGED <<idn, fds, exc, buf, resp, env, instr, instr0, wire, script, sp>>
    /\ UNCHANGED replvars

\* a call of a method of the constructed client
Invoke ==
    /\ pc = "idle"
    /\ script = <<>>
    /\ \E c \in Calls : Enter(c)
    /\ UNCHANGED <<device, idn, fds, exc, buf, resp, env, instr, instr0, wire,
                   script, sp>>
    /\ UNCHANGED replvars

(***************************************************************************)
(* command and query, statement by statement.                              *)
(***************************************************************************)
\* where an exception raised inside try: goes: the finally: clause
FinallyPc_none == "ret"
FinallyPc == "close"

\* the statement after os.write: time.sleep
AfterWritePc_no_settle(kind) == IF kind = "command" THEN "close" ELSE "sleep"
AfterWritePc(kind) == "sleep"

\* the statement after time.sleep: os.read in query, the end of try: in command
AfterSleepPc(kind) == IF kind = "query" THEN "read" ELSE "close"

\* (cmd + '\n').encode()
Encode(cmd) == cmd \o <<NL>>

SleepMs(kind) == IF kind = "query" THEN QUERY_SLEEP_MS ELSE COMMAND_SLEEP_MS

\* fd = os.open(self.device, os.O_RDWR)
os_open ==
    /\ pc = "running"
    /\ cpc = "call"
    /\ ip <= Len(Plan(call))
    /\ \/ /\ fds' = fds + 1
          /\ cpc' = "write"
          /\ log' = Append(log, Ev("open", TRUE, CurStep, <<>>, 0))
          /\ exc' = exc
       \/ /\ fds' = fds
          /\ cpc' = "ret"
          /\ log' = Append(log, Ev("open", FALSE, CurStep, <<>>, 0))
          /\ exc' = OpenError
    /\ UNCHANGED <<pc, device, idn, call, ip, vals, buf, resp, outcome, env,
                   instr, instr0, wire, script, sp>>
    /\ UNCHANGED replvars

\* os.write(fd, (cmd + '\n').encode()); the instrument takes the line
os_write ==
    /\ cpc = "write"
    /\ \/ /\ log' = Append(log, Ev("write", TRUE, CurStep, Encode(CurStep.cmd), 0))
          /\ cpc' = AfterWritePc(CurStep.kind)
          /\ exc' = exc
          /\ IF env = "any"
             THEN /\ instr' = instr
                  /\ wire' \in (IF CurStep.kind = "query" THEN AnyReplies ELSE {<<>>})
             ELSE /\ instr' = InstrApply(instr, LineOf(Encode(CurStep.cmd)))
                  /\ wire' = EnvReply(env, instr', LineOf(Encode(CurStep.cmd)))
       \/ /\ log' = Append(log, Ev("write", FALSE, CurStep, <<>>, 0))
          /\ cpc' = FinallyPc
          /\ exc' = WriteError
          /\ UNCHANGED <<instr, wire>>
    /\ UNCHANGED <<pc, device, idn, call, ip, vals, fds, buf, resp, outcome, env,
                   instr0, script, sp>>
    /\ UNCHANGED replvars

\* time.sleep(0.05) / time.sleep(0.1)
time_sleep ==
    /\ cpc = "sleep"
    /\ log' = Append(log, Ev("sleep", TRUE, CurStep, <<>>, SleepMs(CurStep.kind)))
    /\ cpc' = AfterSleepPc(CurStep.kind)
    /\ UNCHANGED <<pc, device, idn, call, ip, vals, fds, exc, buf, resp, outcome,
                   env, instr, instr0, wire, script, sp>>
    /\ UNCHANGED replvars

\* os.read(fd, 4096)
os_read ==
    /\ cpc = "read"
    /\ \/ /\ LET n == IF Len(wire) < READ_SIZE THEN Len(wire) ELSE READ_SIZE
             IN  /\ buf' = SubSeq(wire, 1, n)
                 /\ wire' = DropN(wire, n)
          /\ log' = Append(log, Ev("read", TRUE, CurStep, <<>>, 0))
          /\ cpc' = "decode"
          /\ exc' = exc
       \/ /\ log' = Append(log, Ev("read", FALSE, CurStep, <<>>, 0))
          /\ cpc' = FinallyPc
          /\ exc' = ReadError
          /\ UNCHANGED <<buf, wire>>
    /\ UNCHANGED <<pc, device, idn, call, ip, vals, fds, resp, outcome, env,
                   instr, instr0, script, sp>>
    /\ UNCHANGED replvars

\* response = <bytes>.decode('utf-8').strip()
decode_strip ==
    /\ cpc = "decode"
    /\ IF Decodable(buf)
       THEN /\ resp' = Strip(buf)
            /\ cpc' = "close"
            /\ exc' = exc
            /\ log' = Append(log, Ev("decode", TRUE, CurStep, <<>>, 0))
       ELSE /\ resp' = resp
            /\ cpc' = FinallyPc
            /\ exc' = DecodeError
            /\ log' = Append(log, Ev("decode", FALSE, CurStep, <<>>, 0))
    /\ UNCHANGED <<pc, device, idn, call, ip, vals, fds, buf, outcome, env,
                   instr, instr0, wire, script, sp>>
    /\ UNCHANGED replvars

\* finally: os.close(fd)
os_close ==
    /\ cpc = "close"
    /\ fds' = fds - 1
    /\ log' = Append(log, Ev("close", TRUE, CurStep, <<>>, 0))
    /\ cpc' = "ret"
    /\ UNCHANGED <<pc, device, idn, call, ip, vals, exc, buf, resp, outcome, env,
                   instr, instr0, wire, script, sp>>
    /\ UNCHANGED replvars

(***************************************************************************)
(* The method that made the channel call takes its result.                 *)
(***************************************************************************)
\* whether the conversion of the reply returns (float raises ValueError)
Converts(conv, text) == conv = "float" => CanFloat(text)

Convert_case_insensitive(conv, text) ==
    CASE conv = "bool" -> (text \in {<<"O", "N">>, <<"o", "n">>})
      [] conv = "float" -> FloatOf(text)
      [] conv = "str" -> text
      [] OTHER -> "None"
\* == 'ON'  /  float(...)
Convert(conv, text) ==
    CASE conv = "bool" -> (text = T_REPLY_ON)
      [] conv = "float" -> FloatOf(text)
      [] conv = "str" -> text
      [] OTHER -> "None"

call_returns_zero_default ==
    /\ cpc = "ret"
    /\ exc = NoExc
    /\ vals' = Append(vals, IF Converts(CurStep.conv, resp)
                            THEN Convert(CurStep.conv, resp) ELSE 0)
    /\ ip' = ip + 1
    /\ cpc' = "call"
    /\ buf' = <<>>
    /\ resp' = <<>>
    /\ exc' = exc
    /\ UNCHANGED <<pc, device, idn, call, fds, log, outcome, env, instr, instr0,
                   wire, script, sp>>
    /\ UNCHANGED replvars
call_returns ==
    /\ cpc = "ret"
    /\ exc = NoExc
    /\ IF Converts(CurStep.conv, resp)
       THEN /\ vals' = Append(vals, Convert(CurStep.conv, resp))
            /\ ip' = ip + 1
            /\ cpc' = "call"
            /\ buf' = <<>>
            /\ resp' = <<>>
            /\ exc' = exc
       ELSE /\ exc' = Exc("ValueError", resp)
            /\ UNCHANGED <<vals, ip, cpc, buf, resp>>
    /\ UNCHANGED <<pc, device, idn, call, fds, log, outcome, env, instr, instr0,
                   wire, script, sp>>
    /\ UNCHANGED replvars

\* nothing in command, query or the typed methods catches: the exception in
\* flight is what the caller of the method gets
Propagate_masked(e) == Returned("None")
Propagate(e) == Raised(e)

method_raises_rollback ==
    /\ cpc = "ret"
    /\ exc # NoExc
    /\ outcome' = Propagate(exc)
    /\ exc' = NoExc
    /\ cpc' = "call"
    /\ buf' = <<>>
    /\ resp' = <<>>
    /\ pc' = IF call.name = "__init__" THEN "dead" ELSE "idle"
    /\ instr' = instr0
    /\ UNCHANGED <<device, idn, call, ip, vals, fds, log, env, instr0,
                   wire, script, sp>>
    /\ UNCHANGED replvars
method_raises ==
    /\ cpc = "ret"
    /\ exc # NoExc
    /\ outcome' = Propagate(exc)
    /\ exc' = NoExc
    /\ cpc' = "call"
    /\ buf' = <<>>
    /\ resp' = <<>>
    /\ pc' = IF call.name = "__init__" THEN "dead" ELSE "idle"
    /\ UNCHANGED <<device, idn, call, ip, vals, fds, log, env, instr, instr0,
                   wire, script, sp>>
    /\ UNCHANGED replvars

method_returns ==
    /\ pc = "running"
    /\ cpc = "call"
    /\ ip > Len(Plan(call))
    /\ call.name # "__init__"
    /\ outcome' = Returned(Result(call, vals))
    /\ pc' = "idle"
    /\ UNCHANGED <<device, idn, call, ip, vals, cpc, fds, exc, buf, resp, log,
                   env, instr, instr0, wire, script, sp>>
    /\ UNCHANGED replvars

\* if 'RIGOL' not in idn and 'DP8' not in idn: raise ConnectionError
Rejects_always_accept(text) == FALSE
Rejects(text) == ~Contains(text, T_RIGOL) /\ ~Contains(text, T_DP8)

\* _verify_connection, after its query returned
_verify_connection ==
    /\ pc = "running"
    /\ cpc = "call"
    /\ ip > Len(Plan(call))
    /\ call.name = "__init__"
    /\ IF Rejects(vals[1])
       THEN /\ outcome' = Raised(Exc("ConnectionError", vals[1]))
            /\ pc' = "dead"
            /\ idn' = idn
       ELSE /\ idn' = vals[1]
            /\ outcome' = Returned("None")
            /\ pc' = "idle"
    /\ UNCHANGED <<device, call, ip, vals, cpc, fds, exc, buf, resp, log, env,
                   instr, instr0, wire, script, sp>>
    /\ UNCHANGED replvars

Channel ==
    \/ os_open
    \/ os_write
    \/ time_sleep
    \/ os_read
    \/ decode_strip
    \/ os_close
    \/ call_returns
    \/ method_raises
    \/ method_returns
    \/ _verify_connection

Next ==
    \/ Construct
    \/ Invoke
    \/ Channel

Spec == Init /\ [][Next]_vars

(***************************************************************************)
(* repl.py: main.  The command line is text; str.split, str.lower,         *)
(* ' '.join, int and float are computed on it.                             *)
(***************************************************************************)
UpperChars == <<"A", "B", "C", "D", "E", "F", "G", "H", "I", "J", "K", "L", "M",
                "N", "O", "P", "Q", "R", "S", "T", "U", "V", "W", "X", "Y", "Z">>
LowerChars == <<"a", "b", "c", "d", "e", "f", "g", "h", "i", "j", "k", "l", "m",
                "n", "o", "p", "q", "r", "s", "t", "u", "v", "w", "x", "y", "z">>
\* str.lower
Lower(s) ==
    [ k \in 1..Len(s) |->
        IF \E u \in 1..26 : UpperChars[u] = s[k]
        THEN LowerChars[CHOOSE u \in 1..26 : UpperChars[u] = s[k]]
        ELSE s[k] ]

\* str.split(): the words between runs of whitespace
WordEnd(s) ==
    IF \E k \in 1..Len(s) : s[k] \in Whitespace
    THEN (CHOOSE k \in 1..Len(s) :
             s[k] \in Whitespace /\ \A j \in 1..(k - 1) : s[j] \notin Whitespace) - 1
    ELSE Len(s)
RECURSIVE Split(_)
Split(s) ==
    LET w == LStrip(s) IN
    IF w = <<>> THEN <<>>
    ELSE <<SubSeq(w, 1, WordEnd(w))>> \o Split(DropN(w, WordEnd(w)))

\* ' '.join(args)
RECURSIVE Join_no_separator(_)
Join_no_separator(words) ==
    IF words = <<>> THEN <<>> ELSE Head(words) \o Join_no_separator(Tail(words))
RECURSIVE Join(_)
Join(words) ==
    IF words = <<>> THEN <<>>
    ELSE IF Len(words) = 1 THEN Head(words)
    ELSE Head(words) \o <<" ">> \o Join(Tail(words))

\* int(text) for the unsigned decimal texts d+; any other text raises ValueError
CanInt(s) == s # <<>> /\ AllDigits(s)
IntOf(s) == DigitsVal(s)

\* the channels print_status shows when it is given none
STATUS_CHANNELS == <<1, 2, 3>>
\* cmd in ('quit', 'exit', 'q')
QuitWords == { <<"q", "u", "i", "t">>, <<"e", "x", "i", "t">>, <<"q">> }
K_HELP == <<"h", "e", "l", "p">>
K_STATUS == <<"s", "t", "a", "t", "u", "s">>
K_SET == <<"s", "e", "t">>
K_ON == <<"o", "n">>
K_OFF == <<"o", "f", "f">>
K_ALLOFF == <<"a", "l", "l", "o", "f", "f">>
K_V == <<"v">>
K_I == <<"i">>
K_MEASURE == <<"m", "e", "a", "s", "u", "r", "e">>
K_RAW == <<"r", "a", "w">>
Keywords ==
    QuitWords \cup {K_HELP, K_STATUS, K_SET, K_ON, K_OFF, K_ALLOFF, K_V, K_I,
                    K_MEASURE, K_RAW}

\* the conversions a handler applies to args before its first client call,
\* in the order it applies them
ArgTypes(cmd, args) ==
    CASE cmd = K_STATUS -> IF args # <<>> THEN <<"int">> ELSE <<>>
      [] cmd = K_SET -> <<"int", "float", "float">>
      [] cmd \in {K_ON, K_OFF, K_MEASURE} -> <<"int">>
      [] cmd \in {K_V, K_I} -> <<"int", "float">>
      [] OTHER -> <<>>
ArgOk(args, k, type) ==
    /\ k <= Len(args)
    /\ IF type = "int" THEN CanInt(args[k]) ELSE CanFloat(args[k])
\* the exception of int(args[0]), float(args[1]), ...: that of the first
\* conversion that fails, IndexError for a missing argument
ArgError(args, types) ==
    LET bad == { k \in 1..Len(types) : ~ArgOk(args, k, types[k]) } IN
    IF bad = {} THEN NoExc
    ELSE LET k == CHOOSE b \in bad : \A c \in bad : b <= c IN
         IF k > Len(args) THEN Exc("IndexError", <<>>)
         ELSE Exc("ValueError", args[k])

\* if '?' in scpi
IsQuery_only_at_end(scpi) == scpi # <<>> /\ scpi[Len(scpi)] = "?"
IsQuery(scpi) == Contains(scpi, <<"?">>)

\* the client calls of the handler of cmd, its arguments converted
HandlerCalls(cmd, args) ==
    CASE cmd = K_STATUS ->
           LET ch == IF args # <<>> THEN IntOf(args[1]) ELSE 0
               channels == IF ch # 0 THEN <<ch>> ELSE STATUS_CHANNELS
           IN  [ k \in 1..Len(channels) |-> Call("status", channels[k], 0, 0, FALSE) ]
      [] cmd = K_SET ->
           << Call("set_voltage", IntOf(args[1]), FloatOf(args[2]), 0, FALSE),
              Call("set_current", IntOf(args[1]), 0, FloatOf(args[3]), FALSE) >>
      [] cmd = K_ON -> << Call("output_on", IntOf(args[1]), 0, 0, FALSE) >>
      [] cmd = K_OFF -> << Call("output_off", IntOf(args[1]), 0, 0, FALSE) >>
      [] cmd = K_ALLOFF -> << Call("all_off", 0, 0, 0, FALSE) >>
      [] cmd = K_V -> << Call("set_voltage", IntOf(args[1]), FloatOf(args[2]), 0, FALSE) >>
      [] cmd = K_I -> << Call("set_current", IntOf(args[1]), 0, FloatOf(args[2]), FALSE) >>
      [] cmd = K_MEASURE ->
           << Call("measure_voltage", IntOf(args[1]), 0, 0, FALSE),
              Call("measure_current", IntOf(args[1]), 0, 0, FALSE),
              Call("measure_power", IntOf(args[1]), 0, 0, FALSE) >>
      [] cmd = K_RAW ->
           IF IsQuery(Join(args)) THEN << RawCall("query", Join(args)) >>
           ELSE << RawCall("command", Join(args)) >>
      [] OTHER -> <<>>

\* what the handler of cmd does: the client calls it makes, and the exception
\* of its argument conversions, which come before the first call
CheckedPlan(cmd, args) ==
    IF ArgError(args, ArgTypes(cmd, args)) = NoExc
    THEN [calls |-> HandlerCalls(cmd, args), err |-> NoExc]
    ELSE [calls |-> <<>>, err |-> ArgError(args, ArgTypes(cmd, args))]
HandlerPlan_voltage_before_current(cmd, args) ==
    IF cmd = K_SET /\ ArgError(args, <<"int", "float">>) = NoExc
          /\ ArgError(args, ArgTypes(cmd, args)) # NoExc
    THEN [calls |-> << Call("set_voltage", IntOf(args[1]), FloatOf(args[2]), 0, FALSE) >>,
          err |-> ArgError(args, ArgTypes(cmd, args))]
    ELSE CheckedPlan(cmd, args)
HandlerPlan(cmd, args) == CheckedPlan(cmd, args)

\* parts = line.split(); cmd = parts[0].lower(); args = parts[1:]
CmdOf(l) == Lower(Head(Split(l)))
ArgsOf(l) == Tail(Split(l))
PlanOf(l) == HandlerPlan(CmdOf(l), ArgsOf(l))

\* a line printed
Msg(kind, data) == [kind |-> kind, data |-> data]
\* except IndexError / except ValueError / except Exception: the message
\* printed for e, "uncaught" if no clause catches it
Handle_no_generic_clause(e) ==
    CASE e.type = "IndexError" -> Msg("Missing arguments", <<>>)
      [] e.type \in {"ValueError", "UnicodeDecodeError"} -> Msg("Invalid value", e.text)
      [] OTHER -> Msg("uncaught", <<>>)
Handle(e) ==
    CASE e.type = "IndexError" -> Msg("Missing arguments", <<>>)
      [] e.type \in {"ValueError", "UnicodeDecodeError"} -> Msg("Invalid value", e.text)
      [] e.type \in {"OSError", "ConnectionError"} -> Msg("Error", e.text)
      [] OTHER -> Msg("uncaught", <<>>)

\* the line a handler prints when its calls have returned res
FinalMsg(cmd, args, res) ==
    CASE cmd = K_RAW -> IF IsQuery(Join(args)) THEN Msg("<", res[1]) ELSE Msg("OK", <<>>)
      [] cmd = K_STATUS -> Msg("", <<>>)
      [] cmd = K_MEASURE -> Msg("measure", <<IntOf(args[1])>> \o res)
      [] OTHER -> Msg("done", Join(<<cmd>> \o args))

\* input(): end of input and Ctrl-C at the prompt
EndOfInput == <<"<EOFError>">>
Interrupt == <<"<KeyboardInterrupt>">>
\* the lines typed
Lines ==
    { <<>>,
      <<" ", " ">>,
      <<"q", "u", "i", "t">>,
      <<"e", "x", "i", "t">>,
      <<" ", "Q", " ">>,
      <<"h", "e", "l", "p">>,
      <<"b", "o", "g", "u", "s">>,
      <<"s", "t", "a", "t", "u", "s">>,
      <<"s", "t", "a", "t", "u", "s", " ", "2">>,
      <<"s", "t", "a", "t", "u", "s", " ", "x">>,
      <<"s", "e", "t", " ", "1", " ", "5", ".", "0", " ", "0", ".", "5">>,
      <<"s", "e", "t", " ", "1", " ", "5", ".", "0">>,
      <<"s", "e", "t", " ", "1", " ", "x", " ", "0", ".", "5">>,
      <<"s", "e", "t">>,
      <<"o", "n", " ", "2">>,
      <<"o", "n">>,
      <<"o", "n", " ", "x">>,
      <<"o", "f", "f", " ", "2">>,
      <<"o", "f", "f">>,
      <<"a", "l", "l", "o", "f", "f">>,
      <<"v", " ", "1", " ", "2", ".", "5">>,
      <<"v", " ", "1">>,
      <<"v", " ", "x", " ", "2", ".", "5">>,
      <<"i", " ", "1", " ", "0", ".", "2", "5">>,
      <<"i", " ", "1", " ", "x">>,
      <<"m", "e", "a", "s", "u", "r", "e", " ", "2">>,
      <<"m", "e", "a", "s", "u", "r", "e">>,
      <<"m", "e", "a", "s", "u", "r", "e", " ", "x">>,
      <<"r", "a", "w", " ", ":", "O", "U", "T", "P", " ", "C", "H", "2", ",", "O", "N">>,
      <<"r", "a", "w", " ", ":", "O", "U", "T", "P", "?", " ", "C", "H", "2">>,
      <<"r", "a", "w", " ", "*", "I", "D", "N", "?">>,
      <<"r", "a", "w">> }

InitRepl ==
    /\ InitCommon
    /\ env \in {"storing", "foreign"}
    /\ instr = InstrDefault
    /\ instr0 = instr
    /\ script = <<>>
    /\ rpc = "connect"

\* print(f"Connected: {psu.idn}\n")
connected ==
    /\ rpc = "connect"
    /\ pc = "idle"
    /\ out' = <<Msg("Connected", idn)>>
    /\ rpc' = "prompt"
    /\ UNCHANGED <<pc, device, idn, call, ip, vals, cpc, fds, exc, buf, resp, log,
                   outcome, env, instr, instr0, wire, script, sp, line, todo, results>>

\* except Exception as e: print(f"Failed to connect: {e}"); sys.exit(1)
connect_failed_enters_loop ==
    /\ rpc = "connect"
    /\ pc = "dead"
    /\ out' = <<Msg("Failed to connect", outcome.exc.text)>>
    /\ rpc' = "prompt"
    /\ UNCHANGED <<pc, device, idn, call, ip, vals, cpc, fds, exc, buf, resp, log,
                   outcome, env, instr, instr0, wire, script, sp, line, todo, results>>
connect_failed ==
    /\ rpc = "connect"
    /\ pc = "dead"
    /\ out' = <<Msg("Failed to connect", outcome.exc.text)>>
    /\ rpc' = "exited"
    /\ UNCHANGED <<pc, device, idn, call, ip, vals, cpc, fds, exc, buf, resp, log,
                   outcome, env, instr, instr0, wire, script, sp, line, todo, results>>

\* line = input("rigol> ").strip(), and except (EOFError, KeyboardInterrupt).
\* What the previous handler left behind is out of scope; instr0 remembers the
\* instrument as it is when the line is read.
input ==
    /\ rpc = "prompt"
    /\ \E typed \in Lines \cup {EndOfInput, Interrupt} :
          IF typed \in {EndOfInput, Interrupt}
          THEN /\ line' = typed
               /\ out' = <<Msg("Bye!", <<>>)>>
               /\ rpc' = "done"
          ELSE /\ line' = Strip(typed)
               /\ out' = <<>>
               /\ rpc' = "handle"
    /\ call' = NoCall
    /\ ip' = 1
    /\ vals' = <<>>
    /\ log' = <<>>
    /\ outcome' = NoOutcome
    /\ results' = <<>>
    /\ instr0' = instr
    /\ UNCHANGED <<pc, device, idn, cpc, fds, exc, buf, resp, env, instr, wire,
                   script, sp, todo>>

\* if not line: continue; the dispatch on cmd, up to the first client call
dispatch ==
    /\ rpc = "handle"
    /\ IF line = <<>>
       THEN /\ rpc' = "prompt"
            /\ UNCHANGED <<out, todo>>
       ELSE IF CmdOf(line) \in QuitWords
       THEN /\ out' = <<Msg("Bye!", <<>>)>>
            /\ rpc' = "done"
            /\ todo' = todo
       ELSE IF CmdOf(line) = K_HELP
       THEN /\ out' = <<Msg("help", <<>>)>>
            /\ rpc' = "prompt"
            /\ todo' = todo
       ELSE IF CmdOf(line) \notin Keywords
       THEN /\ out' = <<Msg("Unknown command", CmdOf(line))>>
            /\ rpc' = "prompt"
            /\ todo' = todo
       ELSE IF PlanOf(line).calls = <<>>
       THEN /\ out' = <<Handle(PlanOf(line).err)>>
            /\ rpc' = IF Handle(PlanOf(line).err).kind = "uncaught" THEN "crashed" ELSE "prompt"
            /\ todo' = todo
       ELSE /\ out' = IF CmdOf(line) = K_STATUS THEN <<Msg("header", <<>>)>> ELSE <<>>
            /\ todo' = PlanOf(line).calls
            /\ rpc' = "exec"
    /\ UNCHANGED <<pc, device, idn, call, ip, vals, cpc, fds, exc, buf, resp, log,
                   outcome, env, instr, instr0, wire, script, sp, line, results>>

\* psu.<method>(...): the next client call of the handler
client_call ==
    /\ rpc = "exec"
    /\ pc = "idle"
    /\ Enter(Head(todo))
    /\ todo' = Tail(todo)
    /\ rpc' = "wait"
    /\ UNCHANGED <<device, idn, fds, exc, buf, resp, env, instr, instr0, wire,
                   script, sp, line, out, results>>

\* the client call returned: print_status prints the row; after the last call
\* the handler prints its line (or raises what its plan holds back) and the
\* loop goes to the next prompt
client_returned ==
    /\ rpc = "wait"
    /\ pc = "idle"
    /\ outcome.kind = "ok"
    /\ results' = Append(results, outcome.value)
    /\ LET row == IF call.name = "status" THEN <<Msg("row", outcome.value)>> ELSE <<>>
           last == IF PlanOf(line).err # NoExc THEN Handle(PlanOf(line).err)
                   ELSE FinalMsg(CmdOf(line), ArgsOf(line), results')
       IN  IF todo = <<>>
           THEN /\ out' = out \o row \o <<last>>
                /\ rpc' = IF last.kind = "uncaught" THEN "crashed" ELSE "prompt"
           ELSE /\ out' = out \o row
                /\ rpc' = "exec"
    /\ UNCHANGED <<pc, device, idn, call, ip, vals, cpc, fds, exc, buf, resp, log,
                   outcome, env, instr, instr0, wire, script, sp, line, todo>>

\* the client call raised: the except clauses of the loop, or none of them
client_raised ==
    /\ rpc = "wait"
    /\ pc = "idle"
    /\ outcome.kind = "raised"
    /\ out' = Append(out, Handle(outcome.exc))
    /\ rpc' = IF Handle(outcome.exc).kind = "uncaught" THEN "crashed" ELSE "prompt"
    /\ todo' = <<>>
    /\ UNCHANGED <<pc, device, idn, call, ip, vals, cpc, fds, exc, buf, resp, log,
                   outcome, env, instr, instr0, wire, script, sp, line, results>>

\* Ctrl-C while a handler is inside os.write, time.sleep or os.read: Python
\* raises KeyboardInterrupt there, the finally: clause closes the handle
keyboard_interrupt ==
    /\ rpc = "wait"
    /\ pc = "running"
    /\ cpc \in {"write", "sleep", "read"}
    /\ exc' = Exc("KeyboardInterrupt", <<>>)
    /\ cpc' = FinallyPc
    /\ UNCHANGED <<pc, device, idn, call, ip, vals, fds, buf, resp, log, outcome,
                   env, instr, instr0, wire, script, sp, rpc, line, todo, out, results>>

NextRepl ==
    \/ Construct
    \/ connected
    \/ connect_failed
    \/ input
    \/ dispatch
    \/ client_call
    \/ client_returned
    \/ client_raised
    \/ keyboard_interrupt
    \/ Channel

SpecRepl == InitRepl /\ [][NextRepl]_vars

(***************************************************************************)
(* A scripted session against the storing instrument: set a voltage and a  *)
(* current on one channel, then read the channel's status; one method of   *)
(* several sends; an output enabled by the raw command of repl.py or by    *)
(* output_on, then read back.  The session stops at the first call that    *)
(* raises.                                                                 *)
(***************************************************************************)
\* the line "raw :OUTP CH<ch>,ON" typed at the prompt of repl.py
RawOnLine(ch) == <<"r", "a", "w", " ">> \o T_OUTP_CH \o FormatInt(ch) \o T_ON
Scripts ==
    { <<Call("configure", ch, v, i, o), Call("status", ch, 0, 0, FALSE)>> :
        ch \in Channels, v \in Voltages, i \in Currents, o \in BOOLEAN }
    \cup
    { <<Call("set_voltage", ch, v, 0, FALSE), Call("set_current", ch, 0, i, FALSE),
        Call("status", ch, 0, 0, FALSE)>> :
        ch \in Channels, v \in Voltages, i \in Currents }
    \cup
    { <<Call("set_ovp", ch, v, 0, FALSE)>> : ch \in Channels, v \in Voltages }
    \cup
    { <<Call("set_ocp", ch, 0, i, FALSE)>> : ch \in Channels, i \in Currents }
    \cup
    { <<Call("all_off", 0, 0, 0, FALSE)>> }
    \cup
    { <<PlanOf(RawOnLine(ch)).calls[1], Call("get_output", ch, 0, 0, FALSE)>> :
        ch \in Channels }
    \cup
    { <<Call("output_on", ch, 0, 0, FALSE), Call("get_output", ch, 0, 0, FALSE)>> :
        ch \in Channels }

InitInstr ==
    /\ InitCommon
    /\ env = "storing"
    /\ instr \in [Channels -> {InstrChannel(0, 0, b) : b \in BOOLEAN}]
    /\ instr0 = instr
    /\ script \in Scripts
    /\ rpc = "none"

InvokeScript ==
    /\ pc = "idle"
    /\ sp <= Len(script)
    /\ outcome.kind # "raised"
    /\ Enter(script[sp])
    /\ sp' = sp + 1
    /\ UNCHANGED <<device, idn, fds, exc, buf, resp, env, instr, instr0, wire,
                   script>>
    /\ UNCHANGED replvars

NextInstr ==
    \/ Construct
    \/ InvokeScript
    \/ Channel

SpecInstr == InitInstr /\ [][NextInstr]_vars

(***************************************************************************)
(* Properties.                                                             *)
(***************************************************************************)
\* the entries of log with os call op
Entries(op) == { k \in 1..Len(log) : log[k].op = op }
\* the channel calls made so far, by their commands: each begins with os.open
Issued == [ j \in 1..Cardinality(Entries("open")) |->
              log[CHOOSE k \in Entries("open") :
                     Cardinality({ m \in Entries("open") : m <= k }) = j] ]
Ended == pc \in {"idle", "dead"}

\* C1: every handle a call of command or query opens is closed exactly once
\* before the call returns or raises: at most one handle is open during a call,
\* none between calls or after a method ended, however it ended.
HandleRelease ==
    /\ fds \in {0, 1}
    /\ (cpc \in {"call", "ret"}) => fds = 0
    /\ (cpc \in {"write", "sleep", "read", "decode", "close"}) => fds = 1
    /\ (pc # "running") => fds = 0
    /\ Cardinality(Entries("close"))
         = Cardinality({ k \in Entries("open") : log[k].ok }) - fds

HandleReleaseWitness ==
    /\ pc = "idle"
    /\ outcome = Raised(DecodeError)
    /\ fds = 0
    /\ Cardinality(Entries("close")) = 1

\* s is t with its leading and trailing whitespace removed
IsTrimOf(s, t) ==
    /\ \E a \in 0..Len(t) : \E b \in a..Len(t) :
          /\ s = SubSeq(t, a + 1, b)
          /\ \A k \in 1..a : t[k] \in Whitespace
          /\ \A k \in (b + 1)..Len(t) : t[k] \in Whitespace
    /\ s # <<>> => (s[1] \notin Whitespace /\ s[Len(s)] \notin Whitespace)

\* C2: a query that succeeds has opened the device, written the command and one
\* newline, slept the query's settle delay, read one buffer of at most READ_SIZE
\* bytes, and closed the handle, in this order and each once; what it returns is
\* the decoded reply without its surrounding whitespace; and no read is ever made
\* except right after the write and the settle delay of the same query.
QueryOrder ==
    /\ (cpc = "ret" /\ exc = NoExc /\ CurStep.kind = "query") =>
          LET n == Len(log) IN
          /\ n = 6 * ip
          /\ [k \in 1..6 |-> log[n - 6 + k].op]
               = <<"open", "write", "sleep", "read", "decode", "close">>
          /\ \A k \in (n - 5)..n : log[k].ok /\ log[k].cmd = CurStep.cmd
          /\ log[n - 4].data = CurStep.cmd \o <<"\n">>
          /\ log[n - 3].ms = QUERY_SLEEP_MS
          /\ Len(buf) <= READ_SIZE
          /\ IsTrimOf(resp, buf)
    /\ \A k \in Entries("read") :
          /\ k > 3
          /\ log[k - 1].op = "sleep" /\ log[k - 1].ms = QUERY_SLEEP_MS
          /\ log[k - 2].op = "write" /\ log[k - 2].ok
          /\ log[k - 3].op = "open" /\ log[k - 3].ok
          /\ \A j \in (k - 3)..k : log[j].cmd = log[k].cmd

QueryOrderWitness ==
    /\ cpc = "ret"
    /\ exc = NoExc
    /\ CurStep.kind = "query"
    /\ buf = R_NUM_PADDED
    /\ resp = <<"0", ".", "2", "5">>

\* C3: a send that succeeds has opened the device, written the command and one
\* newline, slept the send's settle delay and closed the handle, in this order
\* and each once; a send never reads; and after a write that succeeded the handle
\* is not closed before the settle delay.
SendOrder ==
    /\ (cpc = "ret" /\ exc = NoExc /\ CurStep.kind = "command") =>
          LET n == Len(log) IN
          /\ n = 4 * ip
          /\ [k \in 1..4 |-> log[n - 4 + k].op] = <<"open", "write", "sleep", "close">>
          /\ \A k \in (n - 3)..n : log[k].ok /\ log[k].cmd = CurStep.cmd
          /\ log[n - 2].data = CurStep.cmd \o <<"\n">>
          /\ log[n - 1].ms = COMMAND_SLEEP_MS
    /\ \A k \in 1..Len(log) :
          log[k].kind = "command" => log[k].op \notin {"read", "decode"}
    /\ \A k \in Entries("close") :
          (log[k].kind = "command" /\ log[k - 1].op = "write") => ~log[k - 1].ok

SendOrderWitness ==
    /\ cpc = "ret"
    /\ exc = NoExc
    /\ call.name = "all_off"
    /\ ip = 3
    /\ Len(log) = 12

\* the exception a failed os call or decode raises
ErrorOf(op) ==
    CASE op = "open" -> OpenError
      [] op = "write" -> WriteError
      [] op = "read" -> ReadError
      [] op = "decode" -> DecodeError

\* C4: no retry and no masking: a channel call opens the device at most once
\* and writes at most once; after a failed open, write, read or decode nothing
\* but the close of that handle follows; the method then ends raising that very
\* failure, and a method that returned normally had no failure.
NoRetryNoMasking ==
    /\ Cardinality(Entries("open")) <= ip
    /\ Cardinality(Entries("open")) <= Len(Plan(call))
    /\ Cardinality(Entries("write")) <= Cardinality(Entries("open"))
    /\ \A k \in 1..Len(log) :
          ~log[k].ok =>
             /\ \/ k = Len(log)
                \/ k + 1 = Len(log) /\ log[k + 1].op = "close"
             /\ Ended => outcome = Raised(ErrorOf(log[k].op))
             /\ pc = "running" => (exc = ErrorOf(log[k].op) /\ cpc \in {"close", "ret"})
    /\ (Ended /\ outcome.kind = "ok") => \A k \in 1..Len(log) : log[k].ok

NoRetryNoMaskingWitness ==
    /\ pc = "idle"
    /\ call.name = "status"
    /\ outcome = Raised(ReadError)
    /\ Cardinality(Entries("open")) = 3

\* the line written by the identity query
IdnLine == <<"*", "I", "D", "N", "?", "\n">>
IdnWrites == { k \in Entries("write") : log[k].data = IdnLine }

\* C5: construction against a device whose identity reply holds neither 'RIGOL'
\* nor 'DP8' fails with ConnectionError and does nothing more: one query (the
\* identity query) was made, no send, no identity is stored, and nothing follows.
ConstructionRejects ==
    (/\ call = InitCall
     /\ pc # "running"
     /\ Len(vals) = 1
     /\ ~Contains(vals[1], <<"R", "I", "G", "O", "L">>)
     /\ ~Contains(vals[1], <<"D", "P", "8">>))
    => /\ pc = "dead"
       /\ outcome.kind = "raised"
       /\ outcome.exc = Exc("ConnectionError", vals[1])
       /\ idn = NoIdn
       /\ Cardinality(Entries("open")) = 1
       /\ Cardinality(IdnWrites) = 1
       /\ Entries("write") = IdnWrites
       /\ \A k \in 1..Len(log) : log[k].kind = "query"
       /\ fds = 0
       /\ ~ENABLED Next

ConstructionRejectsWitness ==
    /\ pc = "dead"
    /\ outcome.exc.type = "ConnectionError"
    /\ vals = <<<<"A", "C", "M", "E", ",", "P", "S", "1">>>>

\* C6, in every state: a construction that succeeded made exactly one identity
\* query and stored its reply, which holds 'RIGOL' or 'DP8'; the typed
\* operations that follow never write the identity query.
IdentityOnceState ==
    /\ (call = InitCall /\ pc = "idle") =>
          /\ Cardinality(Entries("open")) = 1
          /\ Cardinality(IdnWrites) = 1
          /\ idn = vals[1]
          /\ outcome.kind = "ok"
          /\ (Contains(idn, <<"R", "I", "G", "O", "L">>)
                \/ Contains(idn, <<"D", "P", "8">>))
    /\ (pc \in {"idle", "running"} /\ call # InitCall) =>
          /\ idn # NoIdn
          /\ IdnWrites = {}
    /\ (pc \in {"new", "dead"} \/ (pc = "running" /\ call = InitCall)) => idn = NoIdn

\* C6, in every step: once stored, the identity string and the device path keep
\* their values.
IdentityOnceStep ==
    /\ idn # NoIdn => idn' = idn
    /\ device # NoDevice => device' = device

\* C6: the identity is captured once, at construction, and never re-validated.
IdentityOnce == []IdentityOnceState /\ [][IdentityOnceStep]_vars

IdentityOnceWitness ==
    /\ pc = "idle"
    /\ call.name = "status"
    /\ outcome.kind = "ok"
    /\ idn = <<"R", "I", "G", "O", "L">>
    /\ device = DEFAULT_DEVICE

\* the command texts of the claims below
OffCmd(c) == T_OUTP_CH \o <<DigitChars[c + 1]>> \o T_OFF
OnCmd(c) == T_OUTP_CH \o <<DigitChars[c + 1]>> \o T_ON
VoltCmd(c, v) == T_SOUR \o <<DigitChars[c + 1]>> \o T_VOLT \o FormatFloat(v)
CurrCmd(c, i) == T_SOUR \o <<DigitChars[c + 1]>> \o T_CURR \o FormatFloat(i)
\* the index in log of the os.open of the j-th channel call
OpenAt(j) == CHOOSE k \in Entries("open") :
                 Cardinality({ m \in Entries("open") : m <= k }) = j

\* C7 as claimed: all_off issues exactly three sends, for channels 1, 2, 3 in
\* this order, even if an earlier one fails.
AllOffAlwaysThree ==
    (call.name = "all_off" /\ Ended) =>
       /\ Len(Issued) = 3
       /\ \A j \in 1..3 : Issued[j].cmd = OffCmd(j)

\* C7 as amended: all_off issues its sends one per channel in ascending channel
\* order; exactly three when none fails; when one fails, it is the last one
\* issued, the sends for the later channels are not issued, and all_off raises.
AllOffUntilFailure ==
    call.name = "all_off" =>
       LET n == Len(Issued) IN
       /\ n <= 3
       /\ \A j \in 1..n : Issued[j].cmd = OffCmd(j) /\ Issued[j].kind = "command"
       /\ \A k \in 1..Len(log) : ~log[k].ok => k >= OpenAt(n)
       /\ (Ended /\ outcome.kind = "ok") =>
             (n = 3 /\ \A k \in 1..Len(log) : log[k].ok)
       /\ (Ended /\ outcome.kind = "raised") =>
             /\ n >= 1
             /\ \E k \in OpenAt(n)..Len(log) : ~log[k].ok /\ log[k].cmd = OffCmd(n)
             /\ outcome.exc.type = "OSError"

AllOffUntilFailureWitness ==
    /\ call.name = "all_off"
    /\ pc = "idle"
    /\ outcome = Raised(WriteError)
    /\ Len(Issued) = 2

StatusDone == call.name = "status" /\ pc = "idle" /\ outcome.kind = "ok"

\* C8 as claimed: reading the full status of a channel issues exactly five
\* queries.
StatusFiveQueries == StatusDone => Len(Issued) = 5

\* the queries of status, for channel c
StatusCmds(c) ==
    LET d == <<DigitChars[c + 1]>> IN
    << T_OUTPQ_CH \o d, T_SOUR \o d \o T_VOLTQ, T_SOUR \o d \o T_CURRQ,
       T_MEAS_VOLT_CH \o d, T_MEAS_CURR_CH \o d, T_MEAS_POWE_CH \o d >>

\* C8 as amended: reading the full status of a channel issues exactly six
\* queries, one after the other, all for that channel (output state, voltage
\* setpoint, current setpoint, measured voltage, current and power), and
\* aggregates the instrument's replies into one Channel Status carrying that
\* channel number.
StatusSixQueries ==
    StatusDone =>
       LET c == call.channel
           i == instr[c]
       IN  /\ Len(Issued) = 6
           /\ Len(log) = 36
           /\ \A j \in 1..6 : \A k \in (6 * j - 5)..(6 * j) :
                 /\ log[k].kind = "query"
                 /\ log[k].cmd = StatusCmds(c)[j]
                 /\ log[k].op = <<"open", "write", "sleep", "read", "decode",
                                  "close">>[k - 6 * (j - 1)]
           /\ outcome.value =
                 [channel |-> c, output |-> i.out, voltage_set |-> i.vset,
                  current_set |-> i.iset,
                  voltage |-> IF i.out THEN i.vset ELSE 0,
                  current |-> IF i.out THEN i.iset ELSE 0,
                  power |-> IF i.out THEN (i.vset * i.iset) \div 1000 ELSE 0]

StatusSixQueriesWitness ==
    /\ StatusDone
    /\ outcome.value.output
    /\ outcome.value.voltage = 5000
    /\ outcome.value.current = 500
    /\ outcome.value.power = 2500

SessionDone ==
    /\ env = "storing"
    /\ sp > Len(script)
    /\ StatusDone

\* C9: against an instrument that stores what it is sent, setting voltage v
\* and current i on a channel (configure, or set_voltage then set_current) and
\* then reading the channel's status gives voltage_set = v and current_set = i;
\* output is false unless the channel was on before or was turned on by
\* configure; the other two channels are as they were.
SetGetRoundTrip ==
    SessionDone =>
       LET first == script[1]
           c == first.channel
           v == first.voltage
           i == IF first.name = "configure" THEN first.current
                ELSE script[2].current
           st == outcome.value
       IN  /\ st.channel = c
           /\ st.voltage_set = v
           /\ st.current_set = i
           /\ st.output = (instr0[c].out \/ first.output)
           /\ \A o \in Channels \ {c} : instr[o] = instr0[o]

SetGetRoundTripWitness ==
    /\ SessionDone
    /\ script[1].name = "set_voltage"
    /\ outcome.value.voltage_set = 2500
    /\ outcome.value.current_set = 250
    /\ outcome.value.output = FALSE

\* C10: configure issues its sends in the order set voltage, set current and,
\* only when output is true, output-on; with output false it issues exactly two
\* sends, none of them an output command, and the channel's output state is
\* left as it was.
ConfigureOrder ==
    call.name = "configure" =>
       LET c == call.channel
           expected == <<VoltCmd(c, call.voltage), CurrCmd(c, call.current)>>
                          \o (IF call.output THEN <<OnCmd(c)>> ELSE <<>>)
           n == Len(Issued)
       IN  /\ n <= Len(expected)
           /\ \A j \in 1..n : Issued[j].cmd = expected[j] /\ Issued[j].kind = "command"
           /\ (Ended /\ outcome.kind = "ok") => n = Len(expected)
           /\ ~call.output =>
                 /\ n <= 2
                 /\ \A k \in 1..Len(log) : ~StartsWith(log[k].cmd, T_OUTP_CH)
                 /\ instr[c].out = instr0[c].out

ConfigureOrderWitness ==
    /\ call.name = "configure"
    /\ ~call.output
    /\ pc = "idle"
    /\ outcome.kind = "ok"
    /\ Len(Issued) = 2
    /\ instr[call.channel].out

\* the two commands of set_ovp / set_ocp: the threshold, the enable
ProtectionCmds(c) ==
    LET d == <<DigitChars[c.channel + 1]>> IN
    IF c.name = "set_ovp"
    THEN << T_OVP_VAL_CH \o d \o <<",">> \o FormatFloat(c.voltage),
            T_OVP_CH \o d \o <<",", "O", "N">> >>
    ELSE << T_OCP_VAL_CH \o d \o <<",">> \o FormatFloat(c.current),
            T_OCP_CH \o d \o <<",", "O", "N">> >>

\* C11: setting over-voltage or over-current protection on a channel issues
\* exactly two sends for that channel, the threshold value first and the
\* protection enable second; the enable is never written unless the threshold
\* was written before it.
ProtectionOrder ==
    call.name \in {"set_ovp", "set_ocp"} =>
       LET n == Len(Issued)
           expected == ProtectionCmds(call)
       IN  /\ n <= 2
           /\ \A j \in 1..n : Issued[j].cmd = expected[j] /\ Issued[j].kind = "command"
           /\ (Ended /\ outcome.kind = "ok") => n = 2
           /\ \A k \in Entries("write") :
                 log[k].cmd = expected[2] =>
                    \E j \in 1..(k - 1) :
                       log[j].op = "write" /\ log[j].ok /\ log[j].cmd = expected[1]

ProtectionOrderWitness ==
    /\ call.name = "set_ocp"
    /\ pc = "idle"
    /\ outcome.kind = "ok"
    /\ Len(Issued) = 2
    /\ log[2].data = T_OCP_VAL_CH \o <<"3", ",", "0", ".", "2", "5", "\n">>
    /\ log[6].data = T_OCP_CH \o <<"3", ",", "O", "N", "\n">>

\* the methods that return float(self.query(...))
FloatGetters ==
    {"get_voltage_setpoint", "measure_voltage", "get_current_setpoint",
     "measure_current", "measure_power"}
\* the numeric texts among the replies of the model, stripped
NumericTexts == { <<"5", ".", "0", "0", "0">>, <<"0", ".", "2", "5">> }

\* C12, in every state: a ValueError in flight or raised carries the reply text,
\* which is not numeric, and the method that raised it returned nothing; a
\* float getter that returned, returned a number.
MalformedReplyState ==
    /\ exc.type = "ValueError" =>
          /\ exc.text = resp
          /\ resp \notin NumericTexts
          /\ CurStep.conv = "float"
    /\ (Ended /\ outcome.exc.type = "ValueError") =>
          /\ outcome.kind = "raised"
          /\ outcome.value = "None"
          /\ outcome.exc.text \notin NumericTexts
          /\ call.name \in FloatGetters \cup {"status"}
    /\ (Ended /\ outcome.kind = "ok" /\ call.name \in FloatGetters) =>
          outcome.value \in Nat

\* C12, in every step: a reply to a setpoint or measurement query that is not
\* numeric raises ValueError carrying that text, no value is recorded for it,
\* and that ValueError is what the method raises.
MalformedReplyStep ==
    /\ (cpc = "ret" /\ exc = NoExc /\ CurStep.conv = "float"
          /\ resp \notin NumericTexts) =>
          (exc' = Exc("ValueError", resp) /\ vals' = vals /\ ip' = ip)
    /\ exc.type = "ValueError" => (outcome' = Raised(exc) /\ pc' = "idle")

\* C12: a malformed numeric reply (for example "ERR") to a setpoint or
\* measurement query causes a parse error carrying that literal text; the
\* operation never returns a number for it.
MalformedReply == []MalformedReplyState /\ [][MalformedReplyStep]_vars

MalformedReplyWitness ==
    /\ pc = "idle"
    /\ call.name = "measure_power"
    /\ outcome = Raised(Exc("ValueError", <<"E", "R", "R">>))

\* C13, in every step: the comparison of get_output yields true exactly when
\* the trimmed reply is "ON", and raises nothing whatever the reply.
OutputSentinelStep ==
    (cpc = "ret" /\ exc = NoExc /\ CurStep.conv = "bool") =>
       /\ exc' = NoExc
       /\ ip' = ip + 1
       /\ vals' = Append(vals, IsTrimOf(<<"O", "N">>, buf))

\* C13, in every state: get_output returns that boolean and never raises a
\* parse error.
OutputSentinelState ==
    (Ended /\ call.name = "get_output") =>
       /\ outcome.exc.type # "ValueError"
       /\ outcome.kind = "ok" => (outcome.value \in BOOLEAN /\ outcome.value = vals[1])

\* C13: reading the output state returns true exactly when the trimmed reply
\* equals "ON"; for every other textual reply it returns false and raises no
\* parse error.
OutputSentinel == []OutputSentinelState /\ [][OutputSentinelStep]_vars

OutputSentinelWitness ==
    /\ call.name = "get_output"
    /\ cpc = "ret"
    /\ exc = NoExc
    /\ buf = <<"o", "n", "\n">>
    /\ resp = <<"o", "n">>

\* C19: status issues its queries one after another in the order output state,
\* voltage setpoint, current setpoint, measured voltage, measured current,
\* measured power; when one of them fails (device error or unparseable reply)
\* the later ones are not issued and status raises, returning no Channel Status.
StatusOrder ==
    call.name = "status" =>
       LET n == Len(Issued)
           expected == StatusCmds(call.channel)
       IN  /\ n <= 6
           /\ \A j \in 1..n : Issued[j].cmd = expected[j] /\ Issued[j].kind = "query"
           /\ \A k \in Entries("open") : k > 1 => log[k - 1].op = "close"
           /\ \A k \in 1..Len(log) : ~log[k].ok => k >= OpenAt(n)
           /\ Len(vals) <= n
           /\ (pc = "running" /\ exc.type = "ValueError") => Len(vals) = n - 1
           /\ (Ended /\ outcome.kind = "raised") =>
                 /\ outcome.value = "None"
                 /\ Len(vals) = n - 1
                 /\ \/ \E k \in OpenAt(n)..Len(log) : ~log[k].ok
                    \/ outcome.exc.type = "ValueError"
           /\ (Ended /\ outcome.kind = "ok") =>
                 /\ n = 6
                 /\ Len(vals) = 6
                 /\ outcome.value.channel = call.channel

StatusOrderWitness ==
    /\ call.name = "status"
    /\ pc = "idle"
    /\ outcome = Raised(Exc("ValueError", <<"E", "R", "R">>))
    /\ Len(Issued) = 4
    /\ Len(vals) = 3

\* the methods made of several sends
MultiStep == {"configure", "set_ovp", "set_ocp", "all_off"}
\* the instrument after it received the lines cmds, in order
RECURSIVE ApplyAll(_, _)
ApplyAll(ins, cmds) ==
    IF cmds = <<>> THEN ins
    ELSE ApplyAll(InstrApply(ins, Head(cmds)), Tail(cmds))

\* C18: no rollback on partial failure.  While and after configure, set_ovp,
\* set_ocp or all_off runs as the first call of a session, the sends issued are
\* a prefix of the method's sends (no compensating command), the instrument
\* holds exactly the sends delivered so far, and when send k fails the method
\* raises that failure with sends 1..k-1 still applied.
NoRollback ==
    (script # <<>> /\ sp = 2 /\ call = script[1] /\ call.name \in MultiStep) =>
       LET cmds == [j \in 1..Len(Plan(call)) |-> Plan(call)[j].cmd]
           n == Len(Issued)
           w == Cardinality({ k \in Entries("write") : log[k].ok })
       IN  /\ n <= Len(cmds)
           /\ \A j \in 1..n : Issued[j].cmd = cmds[j] /\ Issued[j].kind = "command"
           /\ w <= n
           /\ instr = ApplyAll(instr0, SubSeq(cmds, 1, w))
           /\ (Ended /\ outcome.kind = "raised") =>
                 /\ n >= 1
                 /\ w = n - 1
                 /\ \E k \in 1..Len(log) :
                       /\ ~log[k].ok
                       /\ log[k].cmd = cmds[n]
                       /\ outcome = Raised(ErrorOf(log[k].op))
           /\ (Ended /\ outcome.kind = "ok") => (n = Len(cmds) /\ w = n)

NoRollbackWitness ==
    /\ script # <<>>
    /\ sp = 2
    /\ call = Call("set_ovp", 2, 5000, 0, FALSE)
    /\ pc = "idle"
    /\ outcome = Raised(WriteError)
    /\ Len(Issued) = 2
    /\ instr[2].ovp = 5000
    /\ ~instr[2].ovp_on
    /\ instr0[2].ovp = 0

\* C15: against the storing instrument, the call made for the line
\* "raw :OUTP CH<c>,ON" followed by get_output(c) returns true, and it has the
\* effect of output_on(c): the same bytes are written and the instrument ends
\* with the output of channel c on and nothing else changed.
RawOutputEnable ==
    /\ \A c \in Channels :
          (script \in { <<RawCall("command", OnCmd(c)), Call("get_output", c, 0, 0, FALSE)>>,
                        <<Call("output_on", c, 0, 0, FALSE), Call("get_output", c, 0, 0, FALSE)>> }
             /\ sp > 1) =>
             /\ sp = 2 =>
                   /\ \A k \in Entries("write") : log[k].ok => log[k].data = OnCmd(c) \o <<NL>>
                   /\ \A j \in 1..Len(Issued) : Issued[j].kind = "command"
                   /\ (Ended /\ outcome.kind = "ok") =>
                         instr = [instr0 EXCEPT ![c].out = TRUE]
             /\ sp = 3 => instr = [instr0 EXCEPT ![c].out = TRUE]
             /\ (sp = 3 /\ Ended /\ outcome.kind = "ok") => outcome.value = TRUE
    /\ (script # <<>> /\ script[1].name \in {"command", "query"}) =>
          \E c \in Channels : script[1] = RawCall("command", OnCmd(c))

RawOutputEnableWitness ==
    /\ script = <<RawCall("command", <<":", "O", "U", "T", "P", " ", "C", "H", "2", ",", "O", "N">>),
                  Call("get_output", 2, 0, 0, FALSE)>>
    /\ sp = 3
    /\ pc = "idle"
    /\ outcome = Returned(TRUE)
    /\ ~instr0[2].out
    /\ instr[2].out

\* the loop of main is past the connection and has a command line in hand
InLine == rpc \in {"handle", "exec", "wait", "prompt"} /\ line # <<>>
\* the text after the word raw (the lines typed separate words by one blank)
RawText(l) == DropN(l, Len(K_RAW) + 1)
HasQuestionMark(s) == \E k \in 1..Len(s) : s[k] = "?"

\* C14: a raw command string that contains "?" is dispatched as exactly one
\* query and its response is printed; one without "?" is dispatched as exactly
\* one send, with no read, and "OK" is printed.
RawDispatch ==
    (InLine /\ CmdOf(line) = K_RAW) =>
       LET scpi == RawText(line)
           kind == IF HasQuestionMark(scpi) THEN "query" ELSE "command"
       IN  /\ Len(Issued) <= 1
           /\ Len(todo) <= 1
           /\ \A j \in 1..Len(Issued) : Issued[j].kind = kind /\ Issued[j].cmd = scpi
           /\ \A k \in Entries("write") : log[k].ok => log[k].data = scpi \o <<NL>>
           /\ Cardinality(Entries("write")) <= 1
           /\ kind = "command" => Entries("read") = {}
           /\ kind = "query" => Cardinality(Entries("read")) <= 1
           /\ rpc = "exec" => (todo = <<RawCall(kind, scpi)>> /\ log = <<>>)
           /\ rpc = "wait" => (call = RawCall(kind, scpi) /\ todo = <<>>)
           /\ (rpc = "prompt" /\ outcome.kind = "ok") =>
                 /\ Len(Issued) = 1
                 /\ Len(out) = 1
                 /\ IF kind = "query"
                    THEN /\ out[1].kind = "<"
                         /\ out[1].data = outcome.value
                         /\ Cardinality(Entries("read")) = 1
                    ELSE out[1].kind = "OK"

RawDispatchWitness ==
    /\ rpc = "prompt"
    /\ line = <<"r", "a", "w", " ", ":", "O", "U", "T", "P", "?", " ", "C", "H", "2">>
    /\ outcome = Returned(<<"O", "N">>)
    /\ Len(out) = 1
    /\ out[1].kind = "<"
    /\ out[1].data = <<"O", "N">>

\* C16, in every state: main is past the connection only with a verified
\* client; after a failed construction it has exited, having read no command
\* line and made no device operation beyond the one identity query.
ConstructionFatalState ==
    /\ pc = "dead" => rpc \in {"connect", "exited"}
    /\ rpc \notin {"connect", "exited"} => (pc # "dead" /\ idn # NoIdn)
    /\ rpc = "exited" =>
          /\ pc = "dead"
          /\ outcome.kind = "raised"
          /\ call = InitCall
          /\ line = <<>>
          /\ todo = <<>>
          /\ Len(Issued) <= 1
          /\ fds = 0
          /\ Len(out) = 1
          /\ out[1].kind = "Failed to connect"
          /\ ~ENABLED NextRepl

\* C16, in every step: once the construction has failed, the only step is the
\* exit, which touches neither the device nor the prompt.
ConstructionFatalStep ==
    pc = "dead" => (rpc' = "exited" /\ UNCHANGED <<pc, call, log, line, todo, instr, fds>>)

\* C16: a construction-time failure (identity check failed, or the identity
\* query itself failed) is fatal to the session: main exits without entering
\* the command loop, reads no command and issues no further device operation.
ConstructionFatal == []ConstructionFatalState /\ [][ConstructionFatalStep]_vars

ConstructionFatalWitness ==
    /\ rpc = "exited"
    /\ env = "foreign"
    /\ outcome = Raised(Exc("ConnectionError", <<"A", "C", "M", "E", ",", "P", "S", "1">>))

\* the number of arguments the handler of cmd converts
NeedsArgs(cmd) ==
    CASE cmd = K_SET -> 3
      [] cmd \in {K_V, K_I} -> 2
      [] cmd \in {K_ON, K_OFF, K_MEASURE} -> 1
      [] OTHER -> 0
\* an argument of l is missing
MissingArg(l) == Len(ArgsOf(l)) < NeedsArgs(CmdOf(l))
\* an argument of l is not a number: the first not a whole number, another not
\* a decimal number
InvalidArg(l) ==
    \E k \in 1..NeedsArgs(CmdOf(l)) :
       /\ k <= Len(ArgsOf(l))
       /\ IF k = 1 THEN \E j \in 1..Len(ArgsOf(l)[1]) : ~IsDigit(ArgsOf(l)[1][j])
          ELSE ~CanFloat(ArgsOf(l)[k])

\* C20: for set, on, off, v, i and measure, when an argument is missing or is
\* not a valid number, no send and no query is issued for that command line:
\* no client call is made, the instrument is as it was when the line was read,
\* and the line ends in the message for the bad argument.
ArgsBeforeDevice ==
    (InLine /\ (MissingArg(line) \/ InvalidArg(line))) =>
       /\ rpc \in {"handle", "prompt"}
       /\ todo = <<>>
       /\ call = NoCall
       /\ log = <<>>
       /\ results = <<>>
       /\ instr = instr0
       /\ rpc = "prompt" =>
             /\ Len(out) = 1
             /\ out[1].kind \in {"Missing arguments", "Invalid value"}

ArgsBeforeDeviceWitness ==
    /\ rpc = "prompt"
    /\ line = <<"s", "e", "t", " ", "1", " ", "5", ".", "0">>
    /\ Len(out) = 1
    /\ out[1].kind = "Missing arguments"
    /\ instr[1].vset = 2500
    /\ log = <<>>

\* the loop has ended the way the claim C17 allows: quit, exit or q was typed,
\* or the input ended or was interrupted at the prompt
EndedAtPrompt ==
    /\ rpc = "done"
    /\ \/ line \in {EndOfInput, Interrupt}
       \/ line # <<>> /\ CmdOf(line) \in QuitWords

\* C17 as stated: bad input and failing client operations are reported and the
\* loop goes on; the loop ends only on quit/exit/q or on end-of-input or
\* interrupt at the prompt.
LoopEndsOnlyAtPrompt ==
    rpc \notin {"connect", "exited"} =>
       \/ rpc \in {"prompt", "handle", "exec", "wait"}
       \/ EndedAtPrompt

\* C17, in every state: the loop ended at the prompt, or by an interrupt that
\* arrived while a client operation was running; at the prompt after a line,
\* what went wrong with the line has been printed.
LoopSurvivesState ==
    /\ rpc \notin {"connect", "exited"} =>
          \/ rpc \in {"prompt", "handle", "exec", "wait"}
          \/ EndedAtPrompt
          \/ rpc = "crashed" /\ outcome = Raised(Exc("KeyboardInterrupt", <<>>))
    /\ (rpc = "prompt" /\ line # <<>>) =>
          /\ out # <<>>
          /\ MissingArg(line) /\ ~InvalidArg(line) => out[1].kind = "Missing arguments"
          /\ InvalidArg(line) /\ ~MissingArg(line) => out[1].kind = "Invalid value"
          /\ CmdOf(line) \notin Keywords => out[1].kind = "Unknown command"
          /\ outcome.kind = "raised" =>
                out[Len(out)].kind =
                   IF outcome.exc.type = "OSError" THEN "Error" ELSE "Invalid value"

\* C17, in every step: a line with a missing or invalid argument, an unknown
\* command, and a client operation that raised anything but the interrupt, are
\* followed by the next prompt.
LoopSurvivesStep ==
    /\ (rpc = "handle" /\ line # <<>>
          /\ (MissingArg(line) \/ InvalidArg(line) \/ CmdOf(line) \notin Keywords)) =>
          (rpc' = "prompt" /\ out' # <<>>)
    /\ (rpc = "wait" /\ pc = "idle" /\ outcome.kind = "raised"
          /\ outcome.exc.type # "KeyboardInterrupt") =>
          (rpc' = "prompt" /\ Len(out') = Len(out) + 1)
    /\ (rpc = "wait" /\ pc = "idle" /\ outcome.kind = "ok") => rpc' \in {"prompt", "exec"}

\* C17, amended: the loop survives a missing argument, a non-numeric argument,
\* an unknown command and a failing client operation, each reported as a
\* message; it ends on quit/exit/q, on end-of-input or interrupt at the prompt,
\* and also on an interrupt that arrives while a command is being executed,
\* which no except clause of the loop catches.
LoopSurvives == []LoopSurvivesState /\ [][LoopSurvivesStep]_vars

LoopSurvivesWitness ==
    /\ rpc = "prompt"
    /\ line = <<"m", "e", "a", "s", "u", "r", "e", " ", "2">>
    /\ call.name = "measure_current"
    /\ Len(results) = 1
    /\ outcome = Raised(ReadError)
    /\ Len(out) = 1
    /\ out[1].kind = "Error"

====
